---- MODULE Spec2Model ----
(***************************************************************************)
(* OrbitWatch backend (src/backend): the Flask request cycle of app.py     *)
(* (before/after hooks, /health, /api/login, POST and GET /api/tle), the   *)
(* lazily created store client of db.py, and the uplink callables of       *)
(* anvil_service.py that reach the same get_db from their own threads.     *)
(*                                                                         *)
(* Spec   : the HTTP process.  Requests are served one after another; an   *)
(*          action is one whole request cycle: handler, then the           *)
(*          after_request hook log_request, whose store call may fail.     *)
(* SpecTle: the HTTP process serving POST and GET /api/tle only, with a    *)
(*          store that stays up, over runs one request longer.             *)
(* SpecDb : the uplink process.  Callables run on concurrent threads and   *)
(*          get_db is interleaved statement by statement.                  *)
(*                                                                         *)
(* Abstractions.  A JSON document is a function from field names to        *)
(* values.  Datetimes are readings 0..MaxTime of a clock that never goes   *)
(* backwards but may return the same reading twice (the store keeps a      *)
(* datetime to the millisecond).  Values a caller can                      *)
(* send as stored_at are JSON values, never datetime objects: they are     *)
(* drawn from CallerStamps, disjoint from the clock's readings.  ObjectIds *)
(* are successive naturals.  Of a log entry only timestamp, method, path   *)
(* and status_code are kept.  Handler-side store calls succeed (outcomes   *)
(* 200/201/400); the store call of the logging hook may fail.              *)
(***************************************************************************)
EXTENDS Integers, Sequences, FiniteSets, TLC

\* ---------------------------------------------------------------- bounds
MaxRequests == 2
MaxTime == 1
MaxBatch == 2
MaxCalls == 2

\* ------------------------------------------------------------- constants
DefaultLimit == 100
NoClient == 0

NoradIds == {1, 2}
Usernames == {"alice"}
CallerStamps == {-1}
Threads == {"t1", "t2"}
Required == {"NORAD_CAT_ID", "TLE_LINE1", "TLE_LINE2"}

VARIABLES
    testing,            \* os.environ TESTING == 'True'
    mock_client,        \* db._mock_client
    real_client,        \* db._real_client
    clients_made,       \* how many client objects were ever constructed
    now,                \* the clock datetime.now(timezone.utc) reads
    tle_data,           \* collection tle_data, in insertion order
    sessions,           \* collection sessions
    api_logs,           \* collection api_logs
    next_id,            \* next ObjectId
    request,            \* the request of the last cycle
    handler_response,   \* what its handler returned
    response,           \* what was sent to the client
    log_failed,         \* whether its logging insert raised
    budget,             \* request cycles the run may still serve
    faulty,             \* whether the store may refuse the logging insert
    nlogged,            \* completed cycles whose path is not /health
    nfailed,            \* of those, how many logging inserts raised
    pc,                 \* uplink threads: position in a callable
    g_db,               \* uplink threads: flask.g.db of the app context
    calls               \* uplink threads: completed callables

vars == <<testing, mock_client, real_client, clients_made, now, tle_data,
          sessions, api_logs, next_id, request, handler_response, response,
          log_failed, budget, faulty, nlogged, nfailed, pc, g_db, calls>>

httpVars == <<now, tle_data, sessions, api_logs, next_id, request,
              handler_response, response, log_failed, budget, faulty, nlogged,
              nfailed>>

threadVars == <<pc, g_db, calls>>

clientVars == <<testing, mock_client, real_client, clients_made>>

\* ------------------------------------------------------------ JSON values
Min(a, b) == IF a < b THEN a ELSE b

\* request.json: null, one object, or an array of objects
JNull == [kind |-> "null", docs |-> <<>>]

JObject(d) == [kind |-> "object", docs |-> <<d>>]

JArray(s) == [kind |-> "array", docs |-> s]

\* variant: "if data is None" in place of "if not data"
TruthyNotNone(data) == data.kind # "null"

\* Python truthiness of request.json: None, {} and [] are falsy
Truthy(data) ==
    \/ data.kind = "object" /\ DOMAIN data.docs[1] # {}
    \/ data.kind = "array" /\ Len(data.docs) > 0

\* int(s) for the decimal strings the model submits
ParseInt(s) == CHOOSE n \in 0..(MaxBatch + 9) : ToString(n) = s

Resp(code, body) == [status |-> code, body |-> body]

\* a submitted TLE document over the field set F
MkDoc(F, n, c) ==
    [f \in F |-> CASE f = "NORAD_CAT_ID" -> n
                   [] f = "TLE_LINE1" -> "1 sat"
                   [] f = "TLE_LINE2" -> "2 sat"
                   [] f = "stored_at" -> c]

\* the documents submitted: complete ones for each catalog identifier, a
\* complete one carrying a caller's own stored_at, and incomplete ones (one
\* required field missing)
Docs ==
    { MkDoc(Required, n, 0) : n \in NoradIds }
    \cup { MkDoc(Required \cup {"stored_at"}, 1, c) : c \in CallerStamps }
    \cup { MkDoc(Required \ {f}, 1, 0) : f \in Required }

Batches == UNION { [1..k -> Docs] : k \in 0..MaxBatch }

EmptyDoc == MkDoc({}, 1, 0)

TlePayloads ==
    {JNull, JObject(EmptyDoc)} \cup { JObject(d) : d \in Docs } \cup { JArray(s) : s \in Batches }

LoginDocs ==
    { [f \in F |-> IF f = "username" THEN u ELSE "secret"] :
        F \in SUBSET {"username", "password"}, u \in Usernames }

LoginPayloads == {JNull} \cup { JObject(d) : d \in LoginDocs }

\* request.args of GET /api/tle
QueryArgs ==
    LET NoradStrings == {""} \cup { ToString(n) : n \in NoradIds }
        LimitStrings == { ToString(n) : n \in 0..MaxBatch }
    IN  { [k \in K |-> IF k = "norad_id" THEN a ELSE l] :
            K \in SUBSET {"norad_id", "limit"}, a \in NoradStrings, l \in LimitStrings }

NoArgs == [k \in {} |-> ""]

Req(method, path, json, args) ==
    [method |-> method, path |-> path, json |-> json, args |-> args]

\* ------------------------------------------------------------- the store
WithId(d, id) == [f \in DOMAIN d \cup {"_id"} |-> IF f = "_id" THEN id ELSE d[f]]

\* Collection.insert_one / insert_many: each document gets a fresh _id and
\* is appended
insert_many(coll, docs, id0) ==
    coll \o [i \in 1..Len(docs) |-> WithId(docs[i], id0 + i - 1)]

insert_one(coll, doc, id0) == insert_many(coll, <<doc>>, id0)

\* db.get_db run without interleaving: the value of the module global
\* afterwards
get_db_client(client, made) == IF client = NoClient THEN made + 1 ELSE client

get_db_made(client, made) == IF client = NoClient THEN made + 1 ELSE made

\* ------------------------------------------------------ after_request hook
\* variant: no early return for /health
log_request_health(resp, req, t, ok, coll, id0) ==
    LET log_entry == [timestamp |-> t, method |-> req.method,
                      path |-> req.path, status_code |-> resp.status]
    IN  IF ok
        THEN [response |-> resp,
              api_logs |-> insert_one(coll, log_entry, id0),
              next_id |-> id0 + 1]
        ELSE [response |-> resp, api_logs |-> coll, next_id |-> id0]

\* variant: no try/except around the insert, the failure becomes a 500
log_request_raise(resp, req, t, ok, coll, id0) ==
    IF req.path = "/health"
    THEN [response |-> resp, api_logs |-> coll, next_id |-> id0]
    ELSE LET log_entry == [timestamp |-> t, method |-> req.method,
                           path |-> req.path, status_code |-> resp.status]
         IN  IF ok
             THEN [response |-> resp,
                   api_logs |-> insert_one(coll, log_entry, id0),
                   next_id |-> id0 + 1]
             ELSE [response |-> Resp(500, [error |-> "Internal Server Error"]),
                   api_logs |-> coll, next_id |-> id0]

\* log_request: the response it returns and the api_logs collection after
\* it; ok = FALSE is get_db() or insert_one raising inside the try block
log_request(resp, req, t, ok, coll, id0) ==
    IF req.path = "/health"
    THEN [response |-> resp, api_logs |-> coll, next_id |-> id0]
    ELSE LET log_entry == [timestamp |-> t, method |-> req.method,
                           path |-> req.path, status_code |-> resp.status]
         IN  IF ok
             THEN [response |-> resp,
                   api_logs |-> insert_one(coll, log_entry, id0),
                   next_id |-> id0 + 1]
             ELSE [response |-> resp, api_logs |-> coll, next_id |-> id0]

\* --------------------------------------------------------------- handlers
health_check(t) == Resp(200, [status |-> "healthy", timestamp |-> t])

\* variant: the session is inserted before the username is looked at
login_unchecked(data, t, coll, id0) ==
    LET session == [username |-> IF Truthy(data) /\ "username" \in DOMAIN data.docs[1]
                                 THEN data.docs[1]["username"] ELSE "",
                    created_at |-> t, active |-> TRUE]
    IN  IF ~Truthy(data) \/ "username" \notin DOMAIN data.docs[1]
        THEN [resp |-> Resp(400, [error |-> "Missing username"]),
              sessions |-> insert_one(coll, session, id0), next_id |-> id0 + 1]
        ELSE [resp |-> Resp(200, [message |-> "Login successful",
                                  session_id |-> ToString(id0)]),
              sessions |-> insert_one(coll, session, id0),
              next_id |-> id0 + 1]

login(data, t, coll, id0) ==
    IF ~Truthy(data) \/ "username" \notin DOMAIN data.docs[1]
    THEN [resp |-> Resp(400, [error |-> "Missing username"]),
          sessions |-> coll, next_id |-> id0]
    ELSE LET session == [username |-> data.docs[1]["username"],
                         created_at |-> t, active |-> TRUE]
         IN  [resp |-> Resp(200, [message |-> "Login successful",
                                  session_id |-> ToString(id0)]),
              sessions |-> insert_one(coll, session, id0),
              next_id |-> id0 + 1]

\* variant: TLE_LINE2 is not required
IsValidLoose(tle) ==
    /\ "NORAD_CAT_ID" \in DOMAIN tle
    /\ "TLE_LINE1" \in DOMAIN tle

IsValid(tle) ==
    /\ "NORAD_CAT_ID" \in DOMAIN tle
    /\ "TLE_LINE1" \in DOMAIN tle
    /\ "TLE_LINE2" \in DOMAIN tle

\* variant: tle.setdefault('stored_at', current_time)
StampKeep(tle, t) ==
    [f \in DOMAIN tle \cup {"stored_at"} |-> IF f \in DOMAIN tle THEN tle[f] ELSE t]

\* tle['stored_at'] = current_time
Stamp(tle, t) ==
    [f \in DOMAIN tle \cup {"stored_at"} |-> IF f = "stored_at" THEN t ELSE tle[f]]

\* variant: the clock is read inside the loop, once per document
RECURSIVE ValidTlesPerDoc(_, _)
ValidTlesPerDoc(tles, t) ==
    IF tles = <<>> THEN <<>>
    ELSE (IF IsValid(Head(tles)) THEN <<Stamp(Head(tles), t)>> ELSE <<>>)
         \o ValidTlesPerDoc(Tail(tles), t + 1)

\* the validation loop: the accepted documents, stamped, in order
RECURSIVE ValidTles(_, _)
ValidTles(tles, t) ==
    IF tles = <<>> THEN <<>>
    ELSE (IF IsValid(Head(tles)) THEN <<Stamp(Head(tles), t)>> ELSE <<>>)
         \o ValidTles(Tail(tles), t)

store_tle(data, t, coll, id0) ==
    IF ~Truthy(data)
    THEN [resp |-> Resp(400, [error |-> "No data provided"]),
          tle_data |-> coll, next_id |-> id0]
    ELSE LET valid_tles == ValidTles(data.docs, t)
         IN  IF valid_tles = <<>>
             THEN [resp |-> Resp(400, [error |-> "No valid TLEs found"]),
                   tle_data |-> coll, next_id |-> id0]
             ELSE [resp |-> Resp(201, [message |-> "Stored "
                                          \o ToString(Len(valid_tles))
                                          \o " TLE records"]),
                   tle_data |-> insert_many(coll, valid_tles, id0),
                   next_id |-> id0 + Len(valid_tles)]

\* the filter get_tle builds: norad_id only when the parameter is truthy
HasNorad(args) == "norad_id" \in DOMAIN args /\ args["norad_id"] # ""

Matches(doc, args) ==
    HasNorad(args) => doc["NORAD_CAT_ID"] = ParseInt(args["norad_id"])

LimitOf(args) ==
    IF "limit" \in DOMAIN args THEN ParseInt(args["limit"]) ELSE DefaultLimit

\* find(query): positions of the matching documents
Find(coll, args) == { i \in 1..Len(coll) : Matches(coll[i], args) }

\* variant: no sort, the documents come in insertion order
RECURSIVE SortInsertion(_, _, _)
SortInsertion(coll, S, stable) ==
    IF S = {} THEN {<<>>}
    ELSE LET i == CHOOSE k \in S : \A j \in S : k <= j
         IN  { <<coll[i]>> \o s : s \in SortInsertion(coll, S \ {i}, stable) }

\* sort("stored_at", -1): the orders a descending sort on stored_at alone
\* may deliver.  The in-memory test store sorts stably (ties stay in
\* insertion order); the database gives no order among equal keys.
RECURSIVE SortDesc(_, _, _)
SortDesc(coll, S, stable) ==
    IF S = {} THEN {<<>>}
    ELSE LET top == { i \in S : \A j \in S : coll[j]["stored_at"] <= coll[i]["stored_at"] }
             first == IF stable THEN { CHOOSE i \in top : \A j \in top : i <= j } ELSE top
         IN  UNION { { <<coll[i]>> \o s : s \in SortDesc(coll, S \ {i}, stable) } : i \in first }

\* cursor.limit(n): a limit of 0 is no limit
Limit(s, n) == IF n = 0 THEN s ELSE SubSeq(s, 1, Min(n, Len(s)))

\* doc['_id'] = str(doc['_id'])
Display(doc) == [doc EXCEPT !["_id"] = ToString(doc["_id"])]

\* the bodies get_tle can return
get_tle(args, coll, stable) ==
    { [i \in 1..Len(Limit(s, LimitOf(args))) |-> Display(Limit(s, LimitOf(args))[i])] :
        s \in SortDesc(coll, Find(coll, args), stable) }

\* ------------------------------------------------------------ HTTP process
\* whether the logging insert goes through (TRUE) or raises (FALSE)
Outcomes == IF faulty THEN BOOLEAN ELSE {TRUE}

\* one request cycle: the handler's result, then log_request; every path but
\* /health reaches get_db, in the handler or in the hook
Cycle(req, resp, id1, ok) ==
    LET l == log_request(resp, req, now, ok, api_logs, id1)
        c == IF testing THEN mock_client ELSE real_client
    IN  /\ ok \in Outcomes
        /\ request' = req
        /\ handler_response' = resp
        /\ response' = l.response
        /\ api_logs' = l.api_logs
        /\ next_id' = l.next_id
        /\ log_failed' = (req.path # "/health" /\ ~ok)
        /\ budget' = budget - 1
        /\ nlogged' = IF req.path = "/health" THEN nlogged ELSE nlogged + 1
        /\ nfailed' = IF req.path # "/health" /\ ~ok THEN nfailed + 1 ELSE nfailed
        /\ mock_client' = IF testing /\ req.path # "/health"
                           THEN get_db_client(c, clients_made) ELSE mock_client
        /\ real_client' = IF ~testing /\ req.path # "/health"
                           THEN get_db_client(c, clients_made) ELSE real_client
        /\ clients_made' = IF req.path # "/health"
                            THEN get_db_made(c, clients_made) ELSE clients_made
        /\ UNCHANGED <<testing, now, faulty, threadVars>>

Health ==
    /\ budget > 0
    /\ Cycle(Req("GET", "/health", JNull, NoArgs), health_check(now), next_id, TRUE)
    /\ UNCHANGED <<tle_data, sessions>>

Login ==
    /\ budget > 0
    /\ \E data \in LoginPayloads, ok \in BOOLEAN :
        LET h == login(data, now, sessions, next_id)
        IN  /\ Cycle(Req("POST", "/api/login", data, NoArgs), h.resp, h.next_id, ok)
            /\ sessions' = h.sessions
            /\ UNCHANGED tle_data

StoreTle ==
    /\ budget > 0
    /\ \E data \in TlePayloads, ok \in BOOLEAN :
        LET h == store_tle(data, now, tle_data, next_id)
        IN  /\ Cycle(Req("POST", "/api/tle", data, NoArgs), h.resp, h.next_id, ok)
            /\ tle_data' = h.tle_data
            /\ UNCHANGED sessions

GetTle ==
    /\ budget > 0
    /\ \E args \in QueryArgs, ok \in BOOLEAN :
        \E results \in get_tle(args, tle_data, testing) :
            /\ Cycle(Req("GET", "/api/tle", JNull, args), Resp(200, results), next_id, ok)
            /\ UNCHANGED <<tle_data, sessions>>

\* the clock moves on between requests
Tick ==
    /\ now < MaxTime
    /\ now' = now + 1
    /\ UNCHANGED <<clientVars, tle_data, sessions, api_logs, next_id, request,
                   handler_response, response, log_failed, budget, faulty, nlogged,
                   nfailed, threadVars>>

\* after import of app.py: init_db -> create_indexes -> get_db has already
\* constructed the process's client
Started(n, f) ==
    /\ testing \in BOOLEAN
    /\ budget = n
    /\ faulty = f
    /\ clients_made = 1
    /\ mock_client = IF testing THEN 1 ELSE NoClient
    /\ real_client = IF testing THEN NoClient ELSE 1
    /\ now = 0
    /\ tle_data = <<>>
    /\ sessions = <<>>
    /\ api_logs = <<>>
    /\ next_id = 1
    /\ request = Req("", "", JNull, NoArgs)
    /\ handler_response = Resp(0, <<>>)
    /\ response = Resp(0, <<>>)
    /\ log_failed = FALSE
    /\ nlogged = 0
    /\ nfailed = 0
    /\ pc = [t \in Threads |-> "idle"]
    /\ g_db = [t \in Threads |-> NoClient]
    /\ calls = [t \in Threads |-> 0]

Init == Started(MaxRequests, TRUE)

Next == Health \/ Login \/ StoreTle \/ GetTle \/ Tick

Spec == Init /\ [][Next]_vars

InitTle == Started(MaxRequests + 1, FALSE)

NextTle == StoreTle \/ GetTle \/ Tick

SpecTle == InitTle /\ [][NextTle]_vars

\* ---------------------------------------------------------- uplink process
\* anvil_service.py never calls init_db: the first get_db of the process runs
\* inside a callable, and callables run on concurrent threads.
ClientOf(mock, real) == IF testing THEN mock ELSE real

\* a callable enters "with app.app_context()": a fresh g, without db
Call(t) ==
    /\ pc[t] = "idle"
    /\ calls[t] < MaxCalls
    /\ pc' = [pc EXCEPT ![t] = "get_db"]
    /\ g_db' = [g_db EXCEPT ![t] = NoClient]
    /\ UNCHANGED <<clientVars, httpVars, calls>>

\* get_db: "if 'db' not in g", then "if _mock_client is None" (or
\* _real_client, by TESTING)
CheckClient(t) ==
    /\ pc[t] = "get_db"
    /\ pc' = [pc EXCEPT ![t] =
                IF g_db[t] # NoClient THEN "find"
                ELSE IF ClientOf(mock_client, real_client) = NoClient THEN "construct"
                ELSE "bind"]
    /\ UNCHANGED <<clientVars, httpVars, g_db, calls>>

\* "_mock_client = mongomock.MongoClient()" or
\* "_real_client = MongoClient(uri, ...)"
Construct(t) ==
    /\ pc[t] = "construct"
    /\ clients_made' = clients_made + 1
    /\ mock_client' = IF testing THEN clients_made + 1 ELSE mock_client
    /\ real_client' = IF testing THEN real_client ELSE clients_made + 1
    /\ pc' = [pc EXCEPT ![t] = "bind"]
    /\ UNCHANGED <<testing, httpVars, g_db, calls>>

\* "g.db = _mock_client.orbitwatch" or "g.db = _real_client.get_database()"
Bind(t) ==
    /\ pc[t] = "bind"
    /\ g_db' = [g_db EXCEPT ![t] = ClientOf(mock_client, real_client)]
    /\ pc' = [pc EXCEPT ![t] = "find"]
    /\ UNCHANGED <<clientVars, httpVars, calls>>

\* the callable queries through the handle get_db returned and leaves the
\* app context
RunQuery(t) ==
    /\ pc[t] = "find"
    /\ pc' = [pc EXCEPT ![t] = "idle"]
    /\ calls' = [calls EXCEPT ![t] = calls[t] + 1]
    /\ UNCHANGED <<clientVars, httpVars, g_db>>

InitDb ==
    /\ testing \in BOOLEAN
    /\ budget = 0
    /\ faulty = FALSE
    /\ clients_made = 0
    /\ mock_client = NoClient
    /\ real_client = NoClient
    /\ now = 0
    /\ tle_data = <<>>
    /\ sessions = <<>>
    /\ api_logs = <<>>
    /\ next_id = 1
    /\ request = Req("", "", JNull, NoArgs)
    /\ handler_response = Resp(0, <<>>)
    /\ response = Resp(0, <<>>)
    /\ log_failed = FALSE
    /\ nlogged = 0
    /\ nfailed = 0
    /\ pc = [t \in Threads |-> "idle"]
    /\ g_db = [t \in Threads |-> NoClient]
    /\ calls = [t \in Threads |-> 0]

NextDb ==
    \E t \in Threads : Call(t) \/ CheckClient(t) \/ Construct(t) \/ Bind(t) \/ RunQuery(t)

SpecDb == InitDb /\ [][NextDb]_vars

\* ================================================================= claims
\* vocabulary of the claims, written without the handlers' own operators

\* the step is one request cycle
Served == budget' = budget - 1

IsPostTle(req) == req.method = "POST" /\ req.path = "/api/tle"

IsGetTle(req) == req.method = "GET" /\ req.path = "/api/tle"

IsLogin(req) == req.method = "POST" /\ req.path = "/api/login"

\* a submitted document that carries all three required fields
Complete(d) == Required \subseteq DOMAIN d

CompleteDocs(json) == SelectSeq(json.docs, Complete)

\* an empty or missing payload: null, {} or []
EmptyPayload(json) ==
    \/ json.kind = "null"
    \/ json.kind = "array" /\ json.docs = <<>>
    \/ json.kind = "object" /\ DOMAIN json.docs[1] = {}

\* what the step appended to a collection
Added(before, after) == SubSeq(after, Len(before) + 1, Len(after))

Extends(before, after) ==
    /\ Len(after) >= Len(before)
    /\ SubSeq(after, 1, Len(before)) = before

StoredMessage(n) == "Stored " \o ToString(n) \o " TLE records"

\* C1: a POST /api/tle carrying at least one complete document is answered
\* 201, and every 201 reports "Stored N TLE records" with N the number of
\* complete documents submitted and appends exactly those documents, in
\* order and with their submitted fields, to tle_data; incomplete documents
\* of the same batch add nothing and do not change the count.
C1_StoredCountIsCompleteDocs ==
    [][ (Served /\ IsPostTle(request')) =>
          LET sent == CompleteDocs(request'.json)
              new == Added(tle_data, tle_data')
          IN  /\ Len(sent) > 0 => response'.status = 201
              /\ response'.status = 201 =>
                   /\ Len(sent) > 0
                   /\ response'.body = [message |-> StoredMessage(Len(sent))]
                   /\ Extends(tle_data, tle_data')
                   /\ Len(new) = Len(sent)
                   /\ \A i \in 1..Len(sent) :
                        /\ DOMAIN new[i] = DOMAIN sent[i] \cup {"stored_at", "_id"}
                        /\ \A f \in DOMAIN sent[i] \ {"stored_at"} : new[i][f] = sent[i][f]
      ]_vars

\* a batch of one complete and one incomplete document was answered 201
\* with a count of 1
C1_Witness ==
    /\ IsPostTle(request)
    /\ request.json.kind = "array"
    /\ Len(request.json.docs) = 2
    /\ Complete(request.json.docs[2])
    /\ ~Complete(request.json.docs[1])
    /\ response = Resp(201, [message |-> StoredMessage(1)])
    /\ Len(tle_data) = 1

\* C2: a request cycle for /health leaves api_logs as it was; a cycle for any
\* other path whose logging insert went through appends exactly one entry,
\* carrying the request's path and method (and the response's status); one
\* whose logging insert raised appends none.  So api_logs holds one entry per
\* completed non-health request, less the failed inserts.
C2_OneLogEntryPerRequest ==
    /\ [](Len(api_logs) = nlogged - nfailed)
    /\ [][ Served =>
             IF request'.path = "/health" \/ log_failed'
             THEN api_logs' = api_logs
             ELSE /\ Extends(api_logs, api_logs')
                  /\ Len(api_logs') = Len(api_logs) + 1
                  /\ api_logs'[Len(api_logs')].path = request'.path
                  /\ api_logs'[Len(api_logs')].method = request'.method
                  /\ api_logs'[Len(api_logs')].status_code = response'.status
         ]_vars

\* a logged request followed by a health check: one entry, not two
C2_Witness ==
    /\ budget = 0
    /\ request.path = "/health"
    /\ nlogged = 1
    /\ nfailed = 0
    /\ Len(api_logs) = 1
    /\ api_logs[1].path # "/health"

\* C3: the response sent to the client is the response the handler returned,
\* status and body, whether the logging insert went through or raised; a
\* failed insert does not turn the request into an error.
C3_HookLeavesResponse ==
    /\ response = handler_response
    /\ log_failed => response.status \in {200, 201, 400}

\* the logging insert raised after a successful store
C3_Witness ==
    /\ log_failed
    /\ IsPostTle(request)
    /\ response.status = 201
    /\ api_logs = <<>>

\* the stored_at values of a sequence of stored records
Stamps(recs) == { recs[i]["stored_at"] : i \in 1..Len(recs) }

\* C5 as amended: the records one accepted POST /api/tle appends all carry
\* the same stored_at, the clock reading of that submission, and that value
\* is not less than the stored_at of any record stored by an earlier
\* submission (it may be equal to it).
C5_BatchSharesStampNonDecreasing ==
    [][ (Served /\ IsPostTle(request') /\ response'.status = 201) =>
          /\ Stamps(Added(tle_data, tle_data')) = {now'}
          /\ \A old \in Stamps(tle_data) : old <= now'
      ]_vars

\* C5 as stated: the later batch's stored_at is also different from the
\* stored_at of every earlier batch.
C5_LaterBatchStampDiffers ==
    [][ (Served /\ IsPostTle(request') /\ response'.status = 201) =>
          /\ Stamps(Added(tle_data, tle_data')) = {now'}
          /\ \A old \in Stamps(tle_data) : old < now'
      ]_vars

\* a two-document batch was stored after an earlier batch, within the same
\* clock reading
C5_Witness ==
    /\ IsPostTle(request)
    /\ response = Resp(201, [message |-> StoredMessage(2)])
    /\ Len(tle_data) = 3
    /\ tle_data[1]["stored_at"] = tle_data[3]["stored_at"]

\* C6: every record of tle_data has a stored_at, it is a reading of the
\* server's clock and never a value a caller can send, and the records a
\* submission appends carry the clock reading of that submission even when
\* the submitted document had a stored_at of its own.
C6_StoredAtIsServerAssigned ==
    /\ [](\A i \in 1..Len(tle_data) :
             /\ "stored_at" \in DOMAIN tle_data[i]
             /\ tle_data[i]["stored_at"] \in 0..now
             /\ tle_data[i]["stored_at"] \notin CallerStamps)
    /\ [][ (Served /\ IsPostTle(request')) =>
             \A v \in Stamps(Added(tle_data, tle_data')) : v = now' ]_vars

\* a document submitted with its own stored_at was stored
C6_Witness ==
    /\ IsPostTle(request)
    /\ request.json.kind = "object"
    /\ "stored_at" \in DOMAIN request.json.docs[1]
    /\ request.json.docs[1]["stored_at"] \in CallerStamps
    /\ response.status = 201
    /\ Len(tle_data) = 1
    /\ tle_data[1]["stored_at"] = now

\* C7: a POST /api/tle without any complete document is answered 400 with a
\* body whose only key is error, "No data provided" for an empty or missing
\* payload and "No valid TLEs found" otherwise, and leaves tle_data as it
\* was.
C7_NothingAcceptedIs400 ==
    [][ (Served /\ IsPostTle(request') /\ CompleteDocs(request'.json) = <<>>) =>
          /\ response'.status = 400
          /\ DOMAIN response'.body = {"error"}
          /\ response'.body.error =
               IF EmptyPayload(request'.json) THEN "No data provided"
               ELSE "No valid TLEs found"
          /\ tle_data' = tle_data
      ]_vars

\* a non-empty batch of incomplete documents was refused while tle_data
\* held a record
C7_Witness ==
    /\ IsPostTle(request)
    /\ request.json.kind = "array"
    /\ Len(request.json.docs) = 2
    /\ response = Resp(400, [error |-> "No valid TLEs found"])
    /\ Len(tle_data) = 1

\* a login payload that carries a username key
HasUsername(json) == json.kind = "object" /\ "username" \in DOMAIN json.docs[1]

\* C8: POST /api/login without a username (no body, or a body without the
\* key) is answered 400 {"error": "Missing username"} and leaves sessions as
\* it was; with a username, whatever else the body holds, it appends exactly
\* one session (that username, active) and answers 200 with the session's
\* identifier as a string.
C8_LoginCreatesOneSession ==
    [][ (Served /\ IsLogin(request')) =>
          IF HasUsername(request'.json)
          THEN /\ Extends(sessions, sessions')
               /\ Len(sessions') = Len(sessions) + 1
               /\ sessions'[Len(sessions')]["username"] = request'.json.docs[1]["username"]
               /\ sessions'[Len(sessions')]["active"] = TRUE
               /\ response'.status = 200
               /\ response'.body.session_id = ToString(sessions'[Len(sessions')]["_id"])
          ELSE /\ sessions' = sessions
               /\ response' = Resp(400, [error |-> "Missing username"])
      ]_vars

\* a login without password created a second session
C8_Witness ==
    /\ IsLogin(request)
    /\ request.json.kind = "object"
    /\ DOMAIN request.json.docs[1] = {"username"}
    /\ response.status = 200
    /\ Len(sessions) = 2
    /\ response.body.session_id = ToString(sessions[2]["_id"])

\* the query of a GET /api/tle, read off its parameters
Filtered(args) == "norad_id" \in DOMAIN args /\ args["norad_id"] # ""

Wanted(rec, args) == Filtered(args) => ToString(rec["NORAD_CAT_ID"]) = args["norad_id"]

Selected(args) == { i \in 1..Len(tle_data) : Wanted(tle_data[i], args) }

Requested(args) ==
    IF "limit" \in DOMAIN args
    THEN CHOOSE n \in 0..(MaxBatch + 1) : ToString(n) = args["limit"]
    ELSE DefaultLimit

\* the body lists stored records that satisfy the query, each once, with the
\* identifier as a string
RowsAreSelected(body, args) ==
    /\ \A k \in 1..Len(body) :
         \E i \in Selected(args) :
            body[k] = [tle_data[i] EXCEPT !["_id"] = ToString(tle_data[i]["_id"])]
    /\ \A k, l \in 1..Len(body) : k # l => body[k]["_id"] # body[l]["_id"]

NewestFirst(body) ==
    \A k, l \in 1..Len(body) : k < l => body[k]["stored_at"] >= body[l]["stored_at"]

\* no selected record left out is newer than a record returned
MostRecent(body, args) ==
    \A i \in Selected(args) :
        (\A k \in 1..Len(body) : body[k]["_id"] # ToString(tle_data[i]["_id"])) =>
            \A k \in 1..Len(body) : tle_data[i]["stored_at"] <= body[k]["stored_at"]

\* C4 as amended: GET /api/tle answers 200 with stored records only; with a
\* norad_id, only records of that catalog identifier; always ordered by
\* stored_at descending.  Without a norad_id and with limit >= 1 (default
\* 100) it returns min(limit, number stored) records, so at most limit, and
\* they are the most recently stored ones; with limit = 0 no limit applies
\* and every stored record is returned.
C4_QueryFiltersSortsLimits ==
    IsGetTle(request) =>
        LET body == response.body
            args == request.args
        IN  /\ response.status = 200
            /\ RowsAreSelected(body, args)
            /\ NewestFirst(body)
            /\ ~Filtered(args) =>
                 /\ Len(body) = IF Requested(args) = 0 THEN Len(tle_data)
                                ELSE Min(Requested(args), Len(tle_data))
                 /\ MostRecent(body, args)

\* C4 as stated: without a norad_id the body never holds more than limit
\* records.
C4_AtMostLimitRecords ==
    IsGetTle(request) =>
        LET body == response.body
            args == request.args
        IN  /\ response.status = 200
            /\ RowsAreSelected(body, args)
            /\ NewestFirst(body)
            /\ ~Filtered(args) =>
                 /\ Len(body) <= Requested(args)
                 /\ MostRecent(body, args)

\* three records stored at two clock readings, queried without norad_id and
\* with limit=1: the one record returned carries the later reading
C4_Witness ==
    /\ IsGetTle(request)
    /\ DOMAIN request.args = {"limit"}
    /\ request.args["limit"] = "1"
    /\ Len(tle_data) = 3
    /\ tle_data[1]["stored_at"] < tle_data[3]["stored_at"]
    /\ Len(response.body) = 1
    /\ response.body[1]["stored_at"] = tle_data[3]["stored_at"]

\* C9: a GET /api/tle that directly follows a GET /api/tle with the same
\* parameters returns the same records in the same order, also when records
\* share a stored_at and the limit cuts inside them, and the query leaves
\* tle_data and sessions as they were.
C9_RequeryIsIdentical ==
    [][ (Served /\ IsGetTle(request) /\ request' = request) =>
          /\ response'.body = response.body
          /\ tle_data' = tle_data
          /\ sessions' = sessions
      ]_vars

\* C10: in the uplink process at most one client is ever constructed, and
\* the handle of every thread inside a callable is backed by the client the
\* module global holds.
C10_ClientConstructedOnce ==
    /\ clients_made <= 1
    /\ \A t \in Threads :
         g_db[t] # NoClient => g_db[t] = ClientOf(mock_client, real_client)

====
